---- MODULE Spec2Model ----
(***************************************************************************)
(* Model of TimerModel (src/timer_app.py): the timer state machine of the  *)
(* floating timer widget.  Time is counted in whole clock units; the       *)
(* callers sample a monotonic clock (perf_counter), so the `now` arguments *)
(* of successive calls never decrease.                                     *)
(***************************************************************************)
EXTENDS Integers, Sequences, FiniteSets, TLC

(* ---------------------------- bounds ----------------------------------- *)
MaxNow == 4
MaxTarget == 3

(* ------------------------ enums and optionals -------------------------- *)
UP == "UP"
DOWN == "DOWN"
TimerMode == {UP, DOWN}

IDLE == "idle"
RUNNING == "running"
PAUSED == "paused"
FINISHED == "finished"
TimerState == {IDLE, RUNNING, PAUSED, FINISHED}

\* Python's None / a present value of an optional field
None == <<>>
Some(x) == <<x>>
Val(o) == o[1]

Max(a, b) == IF a >= b THEN a ELSE b

DefaultTarget == 300

Nows == 0..MaxNow
TargetInputs == (-1)..MaxTarget

(* ----------------------------- TimerModel ------------------------------ *)
\* TimerModel.__init__
InitModel ==
    [mode |-> UP,
     state |-> IDLE,
     target_seconds |-> DefaultTarget,
     start_perf |-> None,
     accumulated_elapsed |-> 0]

\* reset that forgets to clear the banked time
reset_keep_accumulated(m) ==
    [m EXCEPT !.state = IDLE,
              !.start_perf = None]

\* TimerModel.reset
reset(m) ==
    [m EXCEPT !.state = IDLE,
              !.start_perf = None,
              !.accumulated_elapsed = 0]

\* set_mode that stores the mode without the reset
set_mode_no_reset(m, mode) ==
    IF mode = m.mode
    THEN m
    ELSE [m EXCEPT !.mode = mode]

\* TimerModel.set_mode
set_mode(m, mode) ==
    IF mode = m.mode
    THEN m
    ELSE reset([m EXCEPT !.mode = mode])

\* set_target_seconds that clears the banked time in every state
set_target_seconds_always_clear(m, seconds) ==
    [m EXCEPT !.target_seconds = Max(0, seconds),
              !.accumulated_elapsed = 0]

\* set_target_seconds that stores the input without clamping it
set_target_seconds_no_clamp(m, seconds) ==
    LET m1 == [m EXCEPT !.target_seconds = seconds]
    IN IF m1.mode = DOWN /\ m1.state \in {IDLE, FINISHED}
       THEN [m1 EXCEPT !.accumulated_elapsed = 0]
       ELSE m1

\* TimerModel.set_target_seconds
set_target_seconds(m, seconds) ==
    LET s == Max(0, seconds)
        m1 == [m EXCEPT !.target_seconds = s]
    IN IF m1.mode = DOWN /\ m1.state \in {IDLE, FINISHED}
       THEN [m1 EXCEPT !.accumulated_elapsed = 0]
       ELSE m1

\* start that never clears the banked time
start_keep_accumulated(m, now) ==
    IF m.state = RUNNING
    THEN m
    ELSE [m EXCEPT !.start_perf = Some(now), !.state = RUNNING]

\* start that clears the banked time whenever it is not Running
start_always_fresh(m, now) ==
    IF m.state = RUNNING
    THEN m
    ELSE [m EXCEPT !.accumulated_elapsed = 0,
                   !.start_perf = Some(now), !.state = RUNNING]

\* TimerModel.start
start(m, now) ==
    IF m.state = RUNNING
    THEN m
    ELSE LET m1 == IF m.state \in {IDLE, FINISHED}
                   THEN [m EXCEPT !.accumulated_elapsed = 0]
                   ELSE m
         IN [m1 EXCEPT !.start_perf = Some(now), !.state = RUNNING]

\* pause that leaves start_perf set
pause_keep_start(m, now) ==
    IF m.state # RUNNING
    THEN m
    ELSE [m EXCEPT !.accumulated_elapsed = @ + (now - Val(m.start_perf)),
                   !.state = PAUSED]

\* TimerModel.pause
pause(m, now) ==
    IF m.state # RUNNING
    THEN m
    ELSE LET m1 == IF m.start_perf # None
                   THEN [m EXCEPT !.accumulated_elapsed = @ + (now - Val(m.start_perf))]
                   ELSE m
         IN [m1 EXCEPT !.start_perf = None, !.state = PAUSED]

\* resume that begins a fresh run, as start does from Idle
resume_fresh(m, now) ==
    IF m.state # PAUSED
    THEN m
    ELSE [m EXCEPT !.accumulated_elapsed = 0,
                   !.start_perf = Some(now), !.state = RUNNING]

\* resume without the early return
resume_no_guard(m, now) ==
    [m EXCEPT !.start_perf = Some(now), !.state = RUNNING]

\* TimerModel.resume
resume(m, now) ==
    IF m.state # PAUSED
    THEN m
    ELSE [m EXCEPT !.start_perf = Some(now), !.state = RUNNING]

\* the local `elapsed` of TimerModel.snapshot
snapshot_elapsed(m, now) ==
    IF m.state = RUNNING /\ m.start_perf # None
    THEN m.accumulated_elapsed + (now - Val(m.start_perf))
    ELSE m.accumulated_elapsed

\* snapshot that finishes only when remaining < 0
snapshot_strict(m, now) ==
    LET elapsed == snapshot_elapsed(m, now)
        remaining == m.target_seconds - elapsed
        m1 == IF m.mode = DOWN /\ remaining < 0 /\ m.state = RUNNING
              THEN [m EXCEPT !.state = FINISHED, !.start_perf = None]
              ELSE m
    IN [model |-> m1,
        snap |-> [mode |-> m1.mode, state |-> m1.state,
                  elapsed_seconds |-> elapsed,
                  remaining_seconds |-> IF m.mode = UP THEN None
                                        ELSE Some(Max(0, remaining))]]

\* snapshot that reports remaining without clamping it at zero
snapshot_no_clamp(m, now) ==
    LET elapsed == snapshot_elapsed(m, now)
        remaining == m.target_seconds - elapsed
        m1 == IF m.mode = DOWN /\ remaining <= 0 /\ m.state = RUNNING
              THEN [m EXCEPT !.state = FINISHED, !.start_perf = None]
              ELSE m
    IN [model |-> m1,
        snap |-> [mode |-> m1.mode, state |-> m1.state,
                  elapsed_seconds |-> elapsed,
                  remaining_seconds |-> IF m.mode = UP THEN None
                                        ELSE Some(remaining)]]

\* snapshot that auto-finishes before looking at the mode
snapshot_finish_any_mode(m, now) ==
    LET elapsed == snapshot_elapsed(m, now)
        remaining == m.target_seconds - elapsed
        m1 == IF remaining <= 0 /\ m.state = RUNNING
              THEN [m EXCEPT !.state = FINISHED, !.start_perf = None]
              ELSE m
    IN [model |-> m1,
        snap |-> [mode |-> m1.mode, state |-> m1.state,
                  elapsed_seconds |-> elapsed,
                  remaining_seconds |-> IF m.mode = UP THEN None
                                        ELSE Some(Max(0, remaining))]]

\* snapshot that finishes at zero whatever the state is
snapshot_finish_any_state(m, now) ==
    LET elapsed == snapshot_elapsed(m, now)
        remaining == m.target_seconds - elapsed
        m1 == IF m.mode = DOWN /\ remaining <= 0
              THEN [m EXCEPT !.state = FINISHED, !.start_perf = None]
              ELSE m
    IN [model |-> m1,
        snap |-> [mode |-> m1.mode, state |-> m1.state,
                  elapsed_seconds |-> elapsed,
                  remaining_seconds |-> IF m.mode = UP THEN None
                                        ELSE Some(Max(0, remaining))]]

\* TimerModel.snapshot: the model after the call and the TimerSnapshot returned
snapshot(m, now) ==
    LET elapsed == snapshot_elapsed(m, now)
        remaining == m.target_seconds - elapsed
    IN IF m.mode = UP
       THEN [model |-> m,
             snap |-> [mode |-> m.mode, state |-> m.state,
                       elapsed_seconds |-> elapsed,
                       remaining_seconds |-> None]]
       ELSE IF remaining <= 0
            THEN LET m1 == IF m.state = RUNNING
                           THEN [m EXCEPT !.state = FINISHED, !.start_perf = None]
                           ELSE m
                 IN [model |-> m1,
                     snap |-> [mode |-> m1.mode, state |-> m1.state,
                               elapsed_seconds |-> elapsed,
                               remaining_seconds |-> Some(0)]]
            ELSE [model |-> m,
                  snap |-> [mode |-> m.mode, state |-> m.state,
                            elapsed_seconds |-> elapsed,
                            remaining_seconds |-> Some(remaining)]]

(* --------------------------- FloatingTimerApp -------------------------- *)
\* An app value `a` is [model |-> the TimerModel, ui |-> the fields of
\* FloatingTimerApp and the callbacks Tk holds for root.after].  The label
\* texts and the enabled/disabled configuration of the widgets are display
\* only and are left out.

BG == "#1f232a"
DANGER == "#b91c1c"
FlashCount == 8

\* FloatingTimerApp.__init__
InitUI ==
    [update_job |-> None,
     flash_job |-> None,
     flash_remaining |-> 0,
     container_bg |-> BG,
     mode_var |-> UP,
     entries |-> [hours |-> Some(0), minutes |-> Some(5), seconds |-> Some(0)],
     jobs |-> {}]

\* identifier root.after gives to a new callback: one no pending callback has
NewJobId(u) ==
    CHOOSE i \in 1..(Cardinality(u.jobs) + 1) :
        /\ \A j \in u.jobs : j.id # i
        /\ \A k \in 1..(i - 1) : \E j \in u.jobs : j.id = k

\* root.after_cancel
after_cancel(u, id) ==
    [u EXCEPT !.jobs = {j \in @ : j.id # id}]

\* int(var.get() or "0") with ValueError read as 0; an entry holds None when
\* its text is empty or not a number
entry_int(e) == IF e = None THEN 0 ELSE Val(e)

\* FloatingTimerApp._apply_countdown
apply_countdown(a) ==
    LET hours == entry_int(a.ui.entries.hours)
        minutes == entry_int(a.ui.entries.minutes)
        seconds == entry_int(a.ui.entries.seconds)
        total == Max(0, hours) * 3600 + Max(0, minutes) * 60 + Max(0, seconds)
    IN [a EXCEPT !.model = set_target_seconds(a.model, total)]

\* FloatingTimerApp._cancel_update_loop
cancel_update_loop(u) ==
    IF u.update_job = None
    THEN u
    ELSE [after_cancel(u, Val(u.update_job)) EXCEPT !.update_job = None]

\* FloatingTimerApp._ensure_update_loop
ensure_update_loop(u) ==
    IF u.update_job = None
    THEN [u EXCEPT !.update_job = Some(NewJobId(u)),
                   !.jobs = @ \cup {[id |-> NewJobId(u), cb |-> "_on_update"]}]
    ELSE u

\* _flash_step that stops only once flash_remaining is below zero
flash_step_strict(u) ==
    LET u1 == [u EXCEPT !.flash_job = None]
    IN IF u1.flash_remaining < 0
       THEN [u1 EXCEPT !.container_bg = BG]
       ELSE LET r == u1.flash_remaining - 1
            IN [u1 EXCEPT !.flash_remaining = r,
                          !.container_bg = IF r % 2 = 0 THEN DANGER ELSE BG,
                          !.flash_job = Some(NewJobId(u1)),
                          !.jobs = @ \cup {[id |-> NewJobId(u1), cb |-> "_flash_step"]}]

\* FloatingTimerApp._flash_step
flash_step(u) ==
    LET u1 == [u EXCEPT !.flash_job = None]
    IN IF u1.flash_remaining <= 0
       THEN [u1 EXCEPT !.container_bg = BG]
       ELSE LET r == u1.flash_remaining - 1
            IN [u1 EXCEPT !.flash_remaining = r,
                          !.container_bg = IF r % 2 = 0 THEN DANGER ELSE BG,
                          !.flash_job = Some(NewJobId(u1)),
                          !.jobs = @ \cup {[id |-> NewJobId(u1), cb |-> "_flash_step"]}]

\* FloatingTimerApp._start_flash
start_flash(u) ==
    IF u.flash_job # None
    THEN u
    ELSE flash_step([u EXCEPT !.flash_remaining = FlashCount])

\* FloatingTimerApp._stop_flash
stop_flash(u) ==
    LET u1 == IF u.flash_job # None THEN after_cancel(u, Val(u.flash_job)) ELSE u
    IN [u1 EXCEPT !.flash_job = None,
                  !.flash_remaining = 0,
                  !.container_bg = BG]

\* FloatingTimerApp._on_mode_change, the radio button having set _mode_var
on_mode_change(a) ==
    LET mode == IF a.ui.mode_var = UP THEN UP ELSE DOWN
        a1 == [a EXCEPT !.ui = cancel_update_loop(stop_flash(a.ui))]
        a2 == [a1 EXCEPT !.model = set_mode(a1.model, mode)]
    IN IF mode = DOWN THEN apply_countdown(a2) ELSE a2

\* FloatingTimerApp._on_start
on_start(a, now) ==
    LET a1 == [a EXCEPT !.ui = stop_flash(a.ui)]
        a2 == IF a1.model.mode = DOWN THEN apply_countdown(a1) ELSE a1
    IN IF a2.model.mode = DOWN /\ a2.model.target_seconds <= 0
       THEN a2
       ELSE [a2 EXCEPT !.model = IF a2.model.state = PAUSED
                                 THEN resume(a2.model, now)
                                 ELSE start(a2.model, now),
                       !.ui = ensure_update_loop(a2.ui)]

\* _on_stop that pauses without cancelling the poll
on_stop_keep_poll(a, now) ==
    LET a1 == [a EXCEPT !.ui = stop_flash(a.ui)]
    IN IF a1.model.state = RUNNING
       THEN [a1 EXCEPT !.model = pause(a1.model, now)]
       ELSE a1

\* FloatingTimerApp._on_stop
on_stop(a, now) ==
    LET a1 == [a EXCEPT !.ui = stop_flash(a.ui)]
    IN IF a1.model.state = RUNNING
       THEN [a1 EXCEPT !.model = pause(a1.model, now),
                       !.ui = cancel_update_loop(a1.ui)]
       ELSE a1

\* FloatingTimerApp._toggle_start_stop
toggle_start_stop(a, now) ==
    IF a.model.state = RUNNING THEN on_stop(a, now) ELSE on_start(a, now)

\* FloatingTimerApp._on_reset
on_reset(a) ==
    [a EXCEPT !.ui = cancel_update_loop(stop_flash(a.ui)),
              !.model = reset(a.model)]

\* _on_update that does not schedule the next poll while Running
on_update_no_rearm(a, now) ==
    LET u1 == [a.ui EXCEPT !.update_job = None]
        r == snapshot(a.model, now)
    IN [app |-> [model |-> r.model,
                 ui |-> IF r.snap.mode = DOWN /\ r.snap.state = FINISHED
                        THEN start_flash(u1)
                        ELSE u1],
        snap |-> r.snap]

\* FloatingTimerApp._on_update: the app after the callback and the snapshot
\* it took
on_update(a, now) ==
    LET u1 == [a.ui EXCEPT !.update_job = None]
        r == snapshot(a.model, now)
    IN [app |-> [model |-> r.model,
                 ui |-> IF r.snap.mode = DOWN /\ r.snap.state = FINISHED
                        THEN start_flash(u1)
                        ELSE IF r.snap.state = RUNNING
                             THEN ensure_update_loop(u1)
                             ELSE u1],
        snap |-> r.snap]

(* ------------------------------- state --------------------------------- *)
VARIABLES
    model,      \* the TimerModel instance
    clock,      \* the monotonic clock value passed to the latest call
    op,         \* name of the latest call
    arg,        \* its argument (now, mode or seconds; 0 for reset)
    pre,        \* the model as it was before the latest call
    snap,       \* the TimerSnapshot returned by the latest call, if it was a snapshot
    run_time,   \* observer: time spent Running in the current run
    trk,        \* observer: progress through start, pause, resume
    frozen,     \* observer: the snapshot that auto-finished, until a mutator runs
    ui,         \* the FloatingTimerApp fields and Tk's pending callbacks
    flash_steps \* observer: colour steps the current flash has performed

vars == <<model, clock, op, arg, pre, snap, run_time, trk, frozen, ui, flash_steps>>

NoTrk == [phase |-> 0, t0 |-> 0, t1 |-> 0, t2 |-> 0]

Init ==
    /\ model = InitModel
    /\ clock = 0
    /\ op = "init"
    /\ arg = 0
    /\ pre = InitModel
    /\ snap = None
    /\ run_time = 0
    /\ trk = NoTrk
    /\ frozen = None
    /\ ui = InitUI
    /\ flash_steps = 0

\* Time the model spent Running between the previous call and this one.
RunTimeAt(now) ==
    IF model.state = RUNNING THEN run_time + (now - clock) ELSE run_time

Record(name, a, m) ==
    /\ op' = name
    /\ arg' = a
    /\ pre' = model
    /\ model' = m
    /\ UNCHANGED <<ui, flash_steps>>

\* What every mutator does to the observers of returned snapshots.
Mutator ==
    /\ snap' = None
    /\ frozen' = None

SetMode ==
    \E mode \in TimerMode :
        /\ Record("set_mode", mode, set_mode(model, mode))
        /\ run_time' = IF mode # model.mode THEN 0 ELSE run_time
        /\ trk' = NoTrk
        /\ Mutator
        /\ UNCHANGED clock

SetTargetSeconds ==
    \E seconds \in TargetInputs :
        /\ Record("set_target_seconds", seconds, set_target_seconds(model, seconds))
        /\ run_time' = IF model.mode = DOWN /\ model.state \in {IDLE, FINISHED}
                       THEN 0 ELSE run_time
        /\ trk' = NoTrk
        /\ Mutator
        /\ UNCHANGED clock

Start ==
    \E now \in clock..MaxNow :
        /\ Record("start", now, start(model, now))
        /\ clock' = now
        /\ run_time' = IF model.state \in {IDLE, FINISHED} THEN 0 ELSE RunTimeAt(now)
        /\ trk' = IF model.state \in {IDLE, FINISHED}
                  THEN [phase |-> 1, t0 |-> now, t1 |-> 0, t2 |-> 0]
                  ELSE NoTrk
        /\ Mutator

Pause ==
    \E now \in clock..MaxNow :
        /\ Record("pause", now, pause(model, now))
        /\ clock' = now
        /\ run_time' = RunTimeAt(now)
        /\ trk' = IF trk.phase = 1 /\ model.state = RUNNING
                  THEN [trk EXCEPT !.phase = 2, !.t1 = now]
                  ELSE NoTrk
        /\ Mutator

Resume ==
    \E now \in clock..MaxNow :
        /\ Record("resume", now, resume(model, now))
        /\ clock' = now
        /\ run_time' = RunTimeAt(now)
        /\ trk' = IF trk.phase = 2 /\ model.state = PAUSED
                  THEN [trk EXCEPT !.phase = 3, !.t2 = now]
                  ELSE NoTrk
        /\ Mutator

Reset ==
    /\ Record("reset", 0, reset(model))
    /\ run_time' = 0
    /\ trk' = NoTrk
    /\ Mutator
    /\ UNCHANGED clock

Snapshot ==
    \E now \in clock..MaxNow :
        LET r == snapshot(model, now) IN
        /\ Record("snapshot", now, r.model)
        /\ snap' = r.snap
        /\ clock' = now
        /\ run_time' = RunTimeAt(now)
        /\ trk' = IF r.model.state = model.state THEN trk ELSE NoTrk
        /\ frozen' = IF model.state = RUNNING /\ r.model.state = FINISHED
                     THEN Some(r.snap)
                     ELSE frozen

Next ==
    \/ SetMode
    \/ SetTargetSeconds
    \/ Start
    \/ Pause
    \/ Resume
    \/ Reset
    \/ Snapshot

Spec == Init /\ [][Next]_vars

(* ------------------- the app driven by its event loop ------------------ *)
\* The app as the handlers see it.
App == [model |-> model, ui |-> ui]

\* Text an entry field may hold: empty or not a number, or an integer.
EntryInputs == {None} \cup {Some(n) : n \in (-1)..MaxTarget}

\* A handler named `name` has run and left the app as `a`, having taken the
\* snapshot `sn` (None when it took none).
Handled(name, a, sn) ==
    /\ op' = name
    /\ arg' = 0
    /\ pre' = model
    /\ model' = a.model
    /\ ui' = a.ui
    /\ snap' = sn
    /\ UNCHANGED <<run_time, trk, frozen>>

\* perf_counter moves on between two events
Advance ==
    /\ clock < MaxNow
    /\ clock' = clock + 1
    /\ UNCHANGED <<model, op, arg, pre, snap, run_time, trk, frozen, ui, flash_steps>>

OnStart ==
    /\ Handled("_on_start", on_start(App, clock), None)
    /\ flash_steps' = 0
    /\ UNCHANGED clock

OnStop ==
    /\ Handled("_on_stop", on_stop(App, clock), None)
    /\ flash_steps' = 0
    /\ UNCHANGED clock

ToggleStartStop ==
    /\ Handled("_toggle_start_stop", toggle_start_stop(App, clock), None)
    /\ flash_steps' = 0
    /\ UNCHANGED clock

OnReset ==
    /\ Handled("_on_reset", on_reset(App), None)
    /\ flash_steps' = 0
    /\ UNCHANGED clock

\* a click on one of the two mode radio buttons, the selected one included
OnModeChange ==
    \E mode \in TimerMode :
        /\ Handled("_on_mode_change",
                   on_mode_change([App EXCEPT !.ui.mode_var = mode]), None)
        /\ flash_steps' = 0
        /\ UNCHANGED clock

\* typing into an entry field; _sync_ui_from_model enables the fields only
\* in count-down mode while Idle or Finished
EditEntry ==
    /\ model.mode = DOWN
    /\ model.state \in {IDLE, FINISHED}
    /\ \E f \in {"hours", "minutes", "seconds"}, v \in EntryInputs :
           /\ f # "seconds" => v = Some(0)
           /\ ui' = [ui EXCEPT !.entries[f] = v]
    /\ UNCHANGED <<model, clock, op, arg, pre, snap, run_time, trk, frozen, flash_steps>>

\* the apply button or Return in an entry field (_on_entry_return)
ApplyCountdown ==
    /\ model.mode = DOWN
    /\ model.state \in {IDLE, FINISHED}
    /\ Handled("_apply_countdown", apply_countdown(App), None)
    /\ UNCHANGED <<clock, flash_steps>>

\* Tk runs the pending poll callback
OnUpdate ==
    \E j \in ui.jobs :
        /\ j.cb = "_on_update"
        /\ LET r == on_update([App EXCEPT !.ui.jobs = @ \ {j}], clock)
           IN /\ Handled("_on_update", r.app, r.snap)
              /\ flash_steps' = IF ui.flash_job = None /\ r.app.ui.flash_job # None
                                THEN 1 ELSE flash_steps
        /\ UNCHANGED clock

\* Tk runs the pending flash callback
FlashStep ==
    \E j \in ui.jobs :
        /\ j.cb = "_flash_step"
        /\ LET u == flash_step([ui EXCEPT !.jobs = @ \ {j}])
           IN /\ Handled("_flash_step", [App EXCEPT !.ui = u], None)
              /\ flash_steps' = IF u.flash_job # None
                                THEN flash_steps + 1 ELSE flash_steps
        /\ UNCHANGED clock

NextUI ==
    \/ Advance
    \/ OnStart
    \/ OnStop
    \/ ToggleStartStop
    \/ OnReset
    \/ OnModeChange
    \/ EditEntry
    \/ ApplyCountdown
    \/ OnUpdate
    \/ FlashStep

SpecUI == Init /\ [][NextUI]_vars

\* Tk's event loop runs every callback it holds, and perf_counter keeps moving.
SpecUILive ==
    /\ SpecUI
    /\ WF_vars(Advance)
    /\ WF_vars(OnUpdate)
    /\ WF_vars(FlashStep)

(* ------------------------------ properties ----------------------------- *)
TypeOK ==
    /\ model.mode \in TimerMode
    /\ model.state \in TimerState
    /\ model.target_seconds \in Nat
    /\ model.start_perf = None \/ Val(model.start_perf) \in Nows
    /\ model.accumulated_elapsed \in Int
    /\ clock \in Nows

\* The latest call was snapshot(arg).
Snapped == op = "snapshot"

\* The latest call was a snapshot that took the model from Running to Finished.
AutoFinished == Snapped /\ pre.state = RUNNING /\ model.state = FINISHED

\* C1: in CountDown mode, once a snapshot has auto-finished the model, every
\* later snapshot with no mutator call in between reports the values of the
\* finishing snapshot: state Finished, the same elapsedSeconds, remainingSeconds 0.
C1_FrozenAfterFinish ==
    (Snapped /\ frozen # None) =>
        /\ snap.state = FINISHED
        /\ snap.elapsed_seconds = Val(frozen).elapsed_seconds
        /\ snap.remaining_seconds = Some(0)

\* C2: with non-decreasing now values, in either mode, the elapsedSeconds of
\* every snapshot equals the time the model has spent Running in the current
\* run (since the last reset, mode switch or fresh start), however many
\* snapshot calls were interleaved.
C2_ElapsedIsRunningTime ==
    Snapped => snap.elapsed_seconds = run_time

\* C3: in CountDown mode a snapshot taken while Running moves the model to
\* Finished and clears start_perf exactly when target - elapsed <= 0 (the
\* boundary elapsed = target included), and then returns state Finished with
\* remaining 0; otherwise the state stays Running and start_perf is unchanged.
C3_AutoFinishExactlyAtZero ==
    (Snapped /\ pre.mode = DOWN /\ pre.state = RUNNING) =>
        LET elapsed == pre.accumulated_elapsed + (arg - Val(pre.start_perf))
        IN IF pre.target_seconds - elapsed <= 0
           THEN /\ model.state = FINISHED
                /\ model.start_perf = None
                /\ snap.state = FINISHED
                /\ snap.remaining_seconds = Some(0)
           ELSE /\ model.state = RUNNING
                /\ model.start_perf = pre.start_perf

\* a snapshot at the boundary elapsed = target > 0 has finished the model
C3_Witness ==
    /\ AutoFinished
    /\ pre.mode = DOWN
    /\ pre.target_seconds > 0
    /\ pre.accumulated_elapsed + (arg - Val(pre.start_perf)) = pre.target_seconds

\* C4: in every reachable state, start_perf is set if and only if the state
\* is Running.
C4_StartInstantIffRunning ==
    (model.start_perf # None) <=> (model.state = RUNNING)

\* a pause has just taken the model out of Running
C4_Witness ==
    /\ op = "pause"
    /\ pre.state = RUNNING
    /\ pre.start_perf # None
    /\ model.state = PAUSED

\* C5: in CountDown mode every snapshot, from any reachable state and at any
\* now, has remainingSeconds = max(0, targetSeconds - elapsedSeconds) for the
\* elapsedSeconds of the same snapshot.
C5_RemainingIsClampedDifference ==
    model.mode = DOWN =>
        \A now \in Nows :
            LET s == snapshot(model, now).snap
                d == model.target_seconds - s.elapsed_seconds
            IN s.remaining_seconds = Some(IF d > 0 THEN d ELSE 0)

\* a snapshot of a Paused count-down was returned with elapsed beyond the target
C5_Witness ==
    /\ Snapped
    /\ snap.mode = DOWN
    /\ snap.state = PAUSED
    /\ snap.elapsed_seconds > model.target_seconds
    /\ snap.remaining_seconds = Some(0)

\* C6: in CountUp mode snapshot(now) returns remainingSeconds = none and leaves
\* every model field unchanged, for every state and every now; the state is
\* never Finished in CountUp mode, however large elapsed grows.
C6_CountUpSnapshotIsPure ==
    model.mode = UP =>
        /\ model.state # FINISHED
        /\ \A now \in Nows :
               /\ snapshot(model, now).model = model
               /\ snapshot(model, now).snap.remaining_seconds = None
               /\ snapshot(model, now).snap.state = model.state

\* a Running count-up was snapshotted with elapsed beyond the target
C6_Witness ==
    /\ Snapped
    /\ pre.mode = UP
    /\ pre.state = RUNNING
    /\ snap.elapsed_seconds > pre.target_seconds
    /\ model.state = RUNNING

\* C7: while Paused the elapsedSeconds of a snapshot is the same for every
\* now; resume leaves accumulated_elapsed unchanged; and after a fresh
\* start(t0), pause(t1), resume(t2), a snapshot(t3) that does not auto-finish
\* reports elapsedSeconds = (t1 - t0) + (t3 - t2).
C7_PauseResumeRoundTrip ==
    /\ model.state = PAUSED =>
           \A n1, n2 \in Nows :
               snapshot(model, n1).snap.elapsed_seconds
                   = snapshot(model, n2).snap.elapsed_seconds
    /\ op = "resume" => model.accumulated_elapsed = pre.accumulated_elapsed
    /\ (Snapped /\ trk.phase = 3 /\ model.state = RUNNING) =>
           snap.elapsed_seconds = (trk.t1 - trk.t0) + (arg - trk.t2)

\* start, pause, resume and snapshot at four different instants
C7_Witness ==
    /\ Snapped
    /\ trk.phase = 3
    /\ model.state = RUNNING
    /\ trk.t0 < trk.t1
    /\ trk.t1 < trk.t2
    /\ trk.t2 < arg

\* C8: reset() in any state and either mode sets state = Idle, start_perf =
\* none and accumulated_elapsed = 0, leaves mode and target_seconds unchanged,
\* and the next snapshot reports elapsedSeconds = 0 for every now.
C8_ResetReturnsToIdle ==
    op = "reset" =>
        /\ model.state = IDLE
        /\ model.start_perf = None
        /\ model.accumulated_elapsed = 0
        /\ model.mode = pre.mode
        /\ model.target_seconds = pre.target_seconds
        /\ \A now \in Nows : snapshot(model, now).snap.elapsed_seconds = 0

\* reset was called on a model with banked time
C8_Witness ==
    /\ op = "reset"
    /\ pre.state = PAUSED
    /\ pre.accumulated_elapsed > 0
    /\ model.state = IDLE

\* C9: set_mode(m) with m different from the current mode sets mode = m,
\* state = Idle, start_perf = none and accumulated_elapsed = 0 whatever the
\* previous state was, so the next snapshot reports no elapsed time.
C9_ModeSwitchResets ==
    (op = "set_mode" /\ arg # pre.mode) =>
        /\ model.mode = arg
        /\ model.state = IDLE
        /\ model.start_perf = None
        /\ model.accumulated_elapsed = 0
        /\ model.target_seconds = pre.target_seconds
        /\ \A now \in Nows : snapshot(model, now).snap.elapsed_seconds = 0

\* the mode was switched on a model with banked time
C9_Witness ==
    /\ op = "set_mode"
    /\ arg # pre.mode
    /\ pre.state = PAUSED
    /\ pre.accumulated_elapsed > 0
    /\ model.mode = arg

\* C10: set_target_seconds(n) stores the new target (negative n as 0) in every
\* state and never changes mode, state or start_perf; while Running or Paused
\* it leaves accumulated_elapsed unchanged; while Idle accumulated_elapsed
\* stays 0; in CountDown mode while Idle or Finished it sets it to 0.
C10_SetTargetFrame ==
    op = "set_target_seconds" =>
        /\ model.target_seconds = (IF arg > 0 THEN arg ELSE 0)
        /\ model.mode = pre.mode
        /\ model.state = pre.state
        /\ model.start_perf = pre.start_perf
        /\ pre.state \in {RUNNING, PAUSED} =>
               model.accumulated_elapsed = pre.accumulated_elapsed
        /\ pre.state = IDLE => model.accumulated_elapsed = 0
        /\ (pre.mode = DOWN /\ pre.state \in {IDLE, FINISHED}) =>
               model.accumulated_elapsed = 0

\* a new target was stored while Paused with banked time
C10_Witness ==
    /\ op = "set_target_seconds"
    /\ pre.state = PAUSED
    /\ pre.accumulated_elapsed > 0
    /\ model.target_seconds # pre.target_seconds
    /\ model.accumulated_elapsed = pre.accumulated_elapsed

\* C11: every mutator is defined in every state, and its invalid or redundant
\* calls leave all model fields unchanged: start while Running, pause while
\* not Running, resume while not Paused, set_mode to the current mode.
C11_InvalidCallsAreNoOps ==
    /\ \A now \in Nows :
           /\ model.state = RUNNING => start(model, now) = model
           /\ model.state # RUNNING => pause(model, now) = model
           /\ model.state # PAUSED => resume(model, now) = model
    /\ set_mode(model, model.mode) = model
    /\ (\/ op = "start" /\ pre.state = RUNNING
        \/ op = "pause" /\ pre.state # RUNNING
        \/ op = "resume" /\ pre.state # PAUSED
        \/ op = "set_mode" /\ arg = pre.mode) => model = pre

\* resume was called on a Finished model with banked time
C11_Witness ==
    /\ op = "resume"
    /\ pre.state = FINISHED
    /\ pre.accumulated_elapsed > 0
    /\ model = pre

\* C12: set_target_seconds(n) stores max(0, n) for every integer n, so
\* target_seconds is a non-negative integer in every reachable state (300
\* initially); with non-decreasing now values accumulated_elapsed is never
\* negative.
C12_TargetAndAccumulationNonNegative ==
    /\ model.target_seconds \in Nat
    /\ model.accumulated_elapsed >= 0
    /\ op = "init" => model.target_seconds = 300
    /\ op = "set_target_seconds" =>
           model.target_seconds = (IF arg > 0 THEN arg ELSE 0)
    /\ \A n \in TargetInputs :
           set_target_seconds(model, n).target_seconds = (IF n > 0 THEN n ELSE 0)

\* a negative target was passed and stored as 0
C12_Witness ==
    /\ op = "set_target_seconds"
    /\ arg < 0
    /\ pre.target_seconds > 0
    /\ model.target_seconds = 0

\* C13: Finished is entered only by a snapshot taken while Running in
\* CountDown mode with target - elapsed <= 0; so Finished implies CountDown;
\* and a snapshot with remaining <= 0 taken while Idle, Paused or Finished
\* reports remaining 0 and leaves the model as it was.
C13_FinishedOnlyByCountDownSnapshot ==
    /\ (model.state = FINISHED /\ pre.state # FINISHED) =>
           /\ Snapped
           /\ pre.state = RUNNING
           /\ pre.mode = DOWN
           /\ pre.target_seconds
                  - (pre.accumulated_elapsed + (arg - Val(pre.start_perf))) <= 0
    /\ model.state = FINISHED => model.mode = DOWN
    /\ (Snapped /\ pre.mode = DOWN /\ pre.state # RUNNING
          /\ pre.target_seconds - pre.accumulated_elapsed <= 0) =>
           /\ snap.remaining_seconds = Some(0)
           /\ snap.state = pre.state
           /\ model = pre

\* a Paused count-down past its target was snapshotted and stayed Paused
C13_Witness ==
    /\ Snapped
    /\ pre.mode = DOWN
    /\ pre.state = PAUSED
    /\ pre.target_seconds - pre.accumulated_elapsed < 0
    /\ model.state = PAUSED

\* C14: start(now) from Idle or Finished begins a fresh run: accumulated_elapsed
\* = 0, start_perf = now, state = Running, so a snapshot at the same now
\* reports elapsed 0 and, in CountDown mode with target > 0, remaining = target.
C14_StartIsFreshRun ==
    (op = "start" /\ pre.state \in {IDLE, FINISHED}) =>
        /\ model.accumulated_elapsed = 0
        /\ model.start_perf = Some(arg)
        /\ model.state = RUNNING
        /\ snapshot(model, arg).snap.elapsed_seconds = 0
        /\ (model.mode = DOWN /\ model.target_seconds > 0) =>
               snapshot(model, arg).snap.remaining_seconds
                   = Some(model.target_seconds)

\* start was called on a Finished model that still held banked time
C14_Witness ==
    /\ op = "start"
    /\ pre.state = FINISHED
    /\ pre.accumulated_elapsed > 0
    /\ model.state = RUNNING
    /\ model.target_seconds > 0

\* C15: start(now) called while Paused produces the same model as resume(now):
\* state Running, start_perf = now, accumulated_elapsed, mode and target kept.
C15_StartWhilePausedIsResume ==
    /\ model.state = PAUSED =>
           \A now \in Nows : start(model, now) = resume(model, now)
    /\ (op = "start" /\ pre.state = PAUSED) =>
           /\ model.state = RUNNING
           /\ model.start_perf = Some(arg)
           /\ model.accumulated_elapsed = pre.accumulated_elapsed
           /\ model.mode = pre.mode
           /\ model.target_seconds = pre.target_seconds

\* start was called on a Paused model with banked time
C15_Witness ==
    /\ op = "start"
    /\ pre.state = PAUSED
    /\ pre.accumulated_elapsed > 0
    /\ model.state = RUNNING

\* C20: in every reachable state Idle implies accumulated_elapsed = 0, so a
\* snapshot taken while Idle reports elapsed 0 and, in CountDown mode,
\* remaining = target.
C20_IdleHasNoAccumulation ==
    model.state = IDLE =>
        /\ model.accumulated_elapsed = 0
        /\ \A now \in Nows :
               /\ snapshot(model, now).snap.elapsed_seconds = 0
               /\ model.mode = DOWN =>
                      snapshot(model, now).snap.remaining_seconds
                          = Some(model.target_seconds)

\* an Idle count-down was snapshotted after the clock had advanced
C20_Witness ==
    /\ Snapped
    /\ pre.state = IDLE
    /\ pre.mode = DOWN
    /\ pre.target_seconds > 0
    /\ arg > 0
    /\ snap.remaining_seconds = Some(pre.target_seconds)

\* Tk holds a poll callback and _update_job is its identifier.
PollPending ==
    /\ ui.update_job # None
    /\ \E j \in ui.jobs : j.id = Val(ui.update_job) /\ j.cb = "_on_update"

\* C16: after any UI handler has completed (_on_start, _on_stop, _on_reset,
\* _on_mode_change with any selected mode, _toggle_start_stop, _on_update), if
\* the model is Running then a poll job is pending.
C16_PollWhileRunning ==
    model.state = RUNNING => PollPending

\* the poll callbacks Tk holds
PollJobs == {j \in ui.jobs : j.cb = "_on_update"}

\* C17: after any UI handler has completed, if the model is not Running then
\* no poll job is pending (_update_job is None and Tk holds no poll callback),
\* and at most one poll job is pending at any time.
C17_NoPollUnlessRunning ==
    /\ model.state # RUNNING => (ui.update_job = None /\ PollJobs = {})
    /\ Cardinality(PollJobs) <= 1
    /\ ui.update_job = None => PollJobs = {}

\* _on_stop has paused a Running model whose poll was pending
C17_Witness ==
    /\ op = "_on_stop"
    /\ pre.state = RUNNING
    /\ model.state = PAUSED
    /\ ui.update_job = None
    /\ PollJobs = {}

\* The latest handler was a poll tick that took the model from Running to
\* Finished.
FinishedByTick ==
    /\ op = "_on_update"
    /\ pre.state = RUNNING
    /\ model.state = FINISHED

\* _on_start has just begun a count-down from Idle whose end the clock reaches.
CountDownStarted ==
    /\ op = "_on_start"
    /\ pre.state = IDLE
    /\ model.mode = DOWN
    /\ model.state = RUNNING
    /\ model.target_seconds > 0
    /\ clock + model.target_seconds <= MaxNow

\* A handler other than _on_start and the poll tick has run.
UserActed == op \notin {"_on_start", "_on_update"}

\* C18: a count-down with target > 0 started from Idle by the UI reaches
\* Finished through a poll tick unless the user acts again, whatever clock
\* values the ticks sample; and the tick that finishes it starts the completion
\* flash and schedules no further poll.
C18_CountDownFinishesByTick ==
    /\ [](FinishedByTick =>
            /\ snap.state = FINISHED
            /\ snap.remaining_seconds = Some(0)
            /\ ui.flash_job # None
            /\ ui.flash_remaining = FlashCount - 1
            /\ \E j \in ui.jobs : j.id = Val(ui.flash_job) /\ j.cb = "_flash_step"
            /\ ui.update_job = None
            /\ PollJobs = {})
    /\ (CountDownStarted ~> (FinishedByTick \/ UserActed))

\* a tick finished a count-down that several earlier ticks had found Running
C18_Witness ==
    /\ FinishedByTick
    /\ snap.elapsed_seconds > pre.target_seconds
    /\ ui.flash_job # None
    /\ ui.update_job = None

\* the flash callbacks Tk holds
FlashJobs == {j \in ui.jobs : j.cb = "_flash_step"}

\* The flash loop is stopped: no job, no repetitions left, normal background.
FlashStopped ==
    /\ ui.flash_job = None
    /\ FlashJobs = {}
    /\ ui.flash_remaining = 0
    /\ ui.container_bg = BG

\* C19: the completion flash, once started, performs exactly 8 colour steps
\* and then ends with the normal background and no flash job pending; each of
\* _on_start, _on_stop, _on_reset and _on_mode_change stops it at once; and
\* cancelling a flash or poll loop that is already stopped changes nothing.
C19_FlashIsBoundedAndCancellable ==
    /\ [](/\ flash_steps <= FlashCount
          /\ Cardinality(FlashJobs) <= 1
          /\ ui.flash_job # None =>
                 /\ flash_steps = FlashCount - ui.flash_remaining
                 /\ \E j \in FlashJobs : j.id = Val(ui.flash_job)
          /\ (op = "_flash_step" /\ ui.flash_job = None) =>
                 (flash_steps = FlashCount /\ FlashStopped)
          /\ op \in {"_on_start", "_on_stop", "_on_reset", "_on_mode_change"} =>
                 FlashStopped
          /\ ui.flash_job = None => stop_flash(ui) = ui
          /\ ui.update_job = None => cancel_update_loop(ui) = ui
          /\ stop_flash(stop_flash(ui)) = stop_flash(ui)
          /\ cancel_update_loop(cancel_update_loop(ui)) = cancel_update_loop(ui))
    /\ (ui.flash_job # None ~> FlashStopped)

\* the flash ran to its end undisturbed
C19_Witness ==
    /\ op = "_flash_step"
    /\ flash_steps = FlashCount
    /\ FlashStopped

====
